---- MODULE Spec2Model ----
(***************************************************************************)
(* Reminder persistence and delivery scheduling of squirrel-inc:           *)
(* database.py (the reminders table) and main.py (check_reminders, the     *)
(* periodic tick, and create_reminder, the submission handler).            *)
(*                                                                         *)
(* Time is counted in minutes since day 0, 00:00 UTC.  A textual timestamp *)
(* is a record of its printed fields: enc (which layout the text has),     *)
(* d, h, m (the date and the clock fields as printed) and off (the printed *)
(* UTC offset in minutes, 0 when the text carries none).                   *)
(***************************************************************************)
EXTENDS Integers, Sequences, FiniteSets, TLC

\* ------------------------------------------------------------------ bounds
MaxRows == 2          \* rows the table may hold
MaxFaults == 1        \* send errors, commit errors and restarts
MaxClockSteps == 1    \* advances of the wall clock
MaxMarkCalls == 2     \* direct mark_reminder_sent calls per id

\* ------------------------------------------------------- datetime helpers
MinutesPerDay == 24 * 60

\* datetime(d, h, m) as minutes since day 0
Ordinal(d, h, m) == d * MinutesPerDay + h * 60 + m

\* the clock fields strptime / fromisoformat accept
FieldsValid(txt) == txt.h \in 0..23 /\ txt.m \in 0..59 /\ txt.d >= 0

ParseError == [ok |-> FALSE, t |-> 0]
Parsed(t) == [ok |-> TRUE, t |-> t]

\* datetime.strptime(s, '%Y-%m-%d %H:%M:%S.%f%z'): aware, instant = wall - offset
StrptimeFracTz(txt) ==
    IF txt.enc = "frac_tz" /\ FieldsValid(txt)
    THEN Parsed(Ordinal(txt.d, txt.h, txt.m) - txt.off)
    ELSE ParseError

\* datetime.strptime(s, '%Y-%m-%d %H:%M:%S%z')
StrptimeSecTz(txt) ==
    IF txt.enc = "sec_tz" /\ FieldsValid(txt)
    THEN Parsed(Ordinal(txt.d, txt.h, txt.m) - txt.off)
    ELSE ParseError

\* datetime.fromisoformat(s.replace('Z', '+00:00')), a naive result tagged UTC
FromIsoformat(txt) ==
    IF txt.enc \in {"naive", "naive_frac"} /\ FieldsValid(txt)
    THEN Parsed(Ordinal(txt.d, txt.h, txt.m))
    ELSE IF txt.enc \in {"iso_z", "sec_tz", "frac_tz"} /\ FieldsValid(txt)
    THEN Parsed(Ordinal(txt.d, txt.h, txt.m) - txt.off)
    ELSE ParseError

\* isinstance(r['remind_time'], str): the connection sets no detect_types, so
\* a TEXT value comes back as str and an INTEGER value as int
IsStr(txt) == txt.enc # "int"

\* the fallback ladder of check_reminders ("Skip garbage data" = not ok)
ParseRemindTime(txt) ==
    IF StrptimeFracTz(txt).ok THEN StrptimeFracTz(txt)
    ELSE IF StrptimeSecTz(txt).ok THEN StrptimeSecTz(txt)
    ELSE FromIsoformat(txt)

\* a comparison that lets every reminder through
IsDueAlways(remind_time, now_) == TRUE

\* "if remind_time <= now"
IsDue(remind_time, now_) == remind_time <= now_

\* sqlite3's datetime adapter, datetime.isoformat(" "), on an aware UTC value
\* without sub-seconds: 'YYYY-MM-DD HH:MM:SS+00:00'
AdaptDatetime(t) ==
    [enc |-> "sec_tz", d |-> t \div MinutesPerDay,
     h |-> (t % MinutesPerDay) \div 60, m |-> t % 60, off |-> 0]

\* ------------------------------------------------------------- the table
Ids == 1..MaxRows

\* INSERT ... VALUES (message, remind_time, event_time, target_user, 0)
add_reminder(rows_, message, remind_time, event_time, target_user) ==
    Append(rows_, [id |-> Len(rows_) + 1, message |-> message,
                   remind_time |-> AdaptDatetime(remind_time),
                   event_time |-> AdaptDatetime(event_time),
                   target_user |-> target_user, sent_status |-> 0])

\* an update that flips the status instead of setting it
mark_reminder_toggle(rows_, reminder_id) ==
    [i \in DOMAIN rows_ |->
        IF rows_[i].id = reminder_id
        THEN [rows_[i] EXCEPT !.sent_status = 1 - @]
        ELSE rows_[i]]

\* an update without WHERE: SET sent_status = (id = ?)
mark_reminder_only(rows_, reminder_id) ==
    [i \in DOMAIN rows_ |->
        [rows_[i] EXCEPT !.sent_status = IF rows_[i].id = reminder_id THEN 1 ELSE 0]]

\* the UPDATE without its WHERE clause
mark_reminder_all(rows_, reminder_id) ==
    [i \in DOMAIN rows_ |-> [rows_[i] EXCEPT !.sent_status = 1]]

\* UPDATE reminders SET sent_status = 1 WHERE id = ?
mark_reminder_sent(rows_, reminder_id) ==
    [i \in DOMAIN rows_ |->
        IF rows_[i].id = reminder_id
        THEN [rows_[i] EXCEPT !.sent_status = 1]
        ELSE rows_[i]]

\* a query that forgets the WHERE clause
PendingIdsAll(rows_) == DOMAIN rows_

\* WHERE sent_status = 0
PendingIds(rows_) == {i \in DOMAIN rows_ : rows_[i].sent_status = 0}

\* SQLite's comparison of two stored remind_time values: INTEGER sorts before
\* TEXT, TEXT compares bytewise.  The printed fields have fixed width, so the
\* bytewise order is the order of the key below: date, separator (' ' < 'T'),
\* clock fields, then the suffix (end < '+' < '-' < '.' < 'Z').
SuffixRank(txt) ==
    CASE txt.enc \in {"naive"} -> <<0, 0>>
      [] txt.enc = "sec_tz" /\ txt.off >= 0 -> <<1, txt.off>>
      [] txt.enc = "sec_tz" /\ txt.off < 0 -> <<2, -txt.off>>
      [] txt.enc \in {"naive_frac", "frac_tz"} -> <<3, 0>>
      [] txt.enc = "iso_z" -> <<4, 0>>
      [] OTHER -> <<0, 0>>

SortKey(txt) ==
    CASE txt.enc = "int" -> <<0, txt.d, 0, 0, 0>> \o <<0, 0>>
      [] txt.enc = "garbage" -> <<2, 0, 0, 0, 0>> \o <<0, 0>>
      [] OTHER -> <<1, txt.d, IF txt.enc = "iso_z" THEN 1 ELSE 0, txt.h, txt.m>>
                  \o SuffixRank(txt)

RECURSIVE SeqLeq(_, _)
SeqLeq(a, b) ==
    IF a = <<>> THEN TRUE
    ELSE IF Head(a) # Head(b) THEN Head(a) < Head(b)
    ELSE SeqLeq(Tail(a), Tail(b))

\* SELECT * FROM reminders WHERE sent_status = 0 ORDER BY remind_time ASC:
\* the orders the query may return (rows with equal keys come in any order)
get_pending_reminders(rows_) ==
    {p \in [1..Cardinality(PendingIds(rows_)) -> PendingIds(rows_)] :
        /\ \A i, j \in DOMAIN p : i # j => p[i] # p[j]
        /\ \A i, j \in DOMAIN p : i < j =>
              SeqLeq(SortKey(rows_[p[i]].remind_time), SortKey(rows_[p[j]].remind_time))}


\* ------------------------------------------------------- create_reminder
\* datetime.strptime(event_time, "%Y-%m-%dT%H:%M"): a naive datetime
StrptimeLocal(txt) ==
    IF txt.enc = "local" /\ FieldsValid(txt)
    THEN Parsed(Ordinal(txt.d, txt.h, txt.m))
    ELSE ParseError

\* the offset taken with the opposite sign
UtcEventTimeMinus(naive_et, client_offset) == naive_et - client_offset

\* utc_et = naive_et + timedelta(minutes=client_offset), tagged UTC
UtcEventTime(naive_et, client_offset) == naive_et + client_offset

\* utc_rt = utc_et - timedelta(minutes=offset_minutes)
UtcRemindTime(utc_et, offset_minutes) == utc_et - offset_minutes

\* the table after the handler returns; a ValueError leaves it as it was
create_reminder(rows_, message, event_time, offset_minutes, target_user, client_offset) ==
    IF StrptimeLocal(event_time).ok
    THEN add_reminder(rows_, message,
                      UtcRemindTime(UtcEventTime(StrptimeLocal(event_time).t, client_offset),
                                    offset_minutes),
                      UtcEventTime(StrptimeLocal(event_time).t, client_offset),
                      target_user)
    ELSE rows_

\* ------------------------------------------------ check_reminders helpers
\* a handler that records the reminder as Sent although its delivery failed
HandleItemErrorMarks(rows_, reminder_id) == mark_reminder_sent(rows_, reminder_id)

\* a failure that leaves the loop instead of going on
AbortOnError(i, n) == n + 1

\* a failure that stays on the reminder that failed
RepeatOnError(i, n) == i

\* "except Exception as e: logger.error(...)" around one reminder's delivery:
\* the table is left as it is and the loop goes on with the next reminder
HandleItemError(rows_, reminder_id) == rows_
NextIndexOnError(i, n) == i + 1

\* "continue  # Skip garbage data" and a reminder that is not yet due
NextIndexOnSkip(i, n) == i + 1

\* the embed code without its fallback: a text of another format raises
TimeDueFieldRaises(event_time) ==
    CASE event_time.enc \in {"null", "int"} -> "no_field"
      [] event_time.enc \in {"naive", "naive_frac"} /\ FieldsValid(event_time) -> "formatted"
      [] OTHER -> "raise"

\* the "Time Due" field of the embed.  A falsy event_time adds no field; a
\* string goes through strptime with '%Y-%m-%d %H:%M:%S.%f' and then
\* '%Y-%m-%d %H:%M:%S', and any exception there adds "Time Due (Raw)" with
\* the stored text; a value that is neither str nor datetime adds no field.
TimeDueField(event_time) ==
    CASE event_time.enc \in {"null", "int"} -> "no_field"
      [] event_time.enc \in {"naive", "naive_frac"} /\ FieldsValid(event_time) -> "formatted"
      [] OTHER -> "raw"

\* ----------------------------------------------------------- input sets
Txt(enc, d, h, m, off) == [enc |-> enc, d |-> d, h |-> h, m |-> m, off |-> off]

\* the wall clock starts on day 1 at 18:30 and moves in half hours
StartTime == Ordinal(1, 18, 30)
EndTime == StartTime + MaxClockSteps * 30

\* remind_time values written by earlier revisions or by hand
LegacyTexts ==
    { Txt("naive", 1, 18, 0, 0),          \* '... 18:00:00', due at the start
      Txt("naive_frac", 1, 19, 0, 0),     \* '... 19:00:00.000000'
      Txt("frac_tz", 1, 20, 30, 120),     \* '... 20:30:00.000000+02:00' = 18:30Z
      Txt("sec_tz", 1, 18, 0, -300),      \* '... 18:00:00-05:00' = 23:00Z
      Txt("iso_z", 1, 19, 0, 0),          \* '...T19:00:00Z'
      Txt("iso_z", 2, 19, 0, 0),          \* a day later
      Txt("sec_tz", 1, 25, 0, 0),         \* hour out of range
      Txt("garbage", 0, 0, 0, 0),         \* 'not a date'
      Txt("int", 1, 0, 0, 0) }            \* an INTEGER value

LegacyRow(i, txt) ==
    [id |-> i, message |-> "m", remind_time |-> txt,
     event_time |-> txt, target_user |-> "u", sent_status |-> 0]

\* event_time values of such rows: NULL, an INTEGER, 'not a date'
LegacyEventTimes ==
    { Txt("null", 0, 0, 0, 0), Txt("int", 1, 0, 0, 0), Txt("garbage", 0, 0, 0, 0) }

\* a row that is due at the start and carries such an event_time
OddEventRow(i, et) == [LegacyRow(i, Txt("naive", 1, 18, 0, 0)) EXCEPT !.event_time = et]

\* the form fields a submission may carry
EventTimeInputs == { Txt("local", 1, 14, 30, 0), Txt("bad", 0, 0, 0, 0) }
ClientOffsets == {300}
LeadOffsets == {30}

\* ------------------------------------------------------------------ state
VARIABLES
    rows,               \* the reminders table, in id order
    DISCORD_CHANNEL_ID, \* TRUE when the environment sets a channel id
    clock,              \* the wall clock
    pc,                 \* where check_reminders is: idle, loop, sending, marking
    pending,            \* the tick's list of fetched rows
    now,                \* the tick's "now"
    idx,                \* the position of r in pending
    sends,              \* history: successful channel.send calls per id
    outcome,            \* history: what the current tick did with each id
    retry,              \* history: ids whose send raised in the tick before
    unmarked,           \* history: ids sent but not marked in the tick before
    embed,              \* the time field of the embed built last in this tick
    late,               \* history: ids created while a tick was in flight
    tickStartSent,      \* history: ids that were Sent when the tick started
    markCalls,          \* history: committed mark_reminder_sent calls per id
    restarted,          \* history: the process has been restarted
    lifecycle,          \* lifespan: running, stopping (shutdown begun), stopped
    faults              \* errors and restarts so far

vars == <<rows, DISCORD_CHANNEL_ID, clock, pc, pending, now, idx, sends,
          outcome, retry, unmarked, embed, late, tickStartSent, markCalls, restarted,
          lifecycle, faults>>

\* what neither the tick nor the store touches
envVars == <<DISCORD_CHANNEL_ID, clock, restarted, lifecycle>>

tickVars == <<pc, pending, now, idx, outcome, retry, unmarked, embed, tickStartSent>>

NoOutcome == [i \in Ids |-> "none"]

Init ==
    /\ rows \in {<<>>} \cup {<<LegacyRow(1, t)>> : t \in LegacyTexts}
                     \cup {<<OddEventRow(1, et)>> : et \in LegacyEventTimes}
    /\ DISCORD_CHANNEL_ID \in BOOLEAN
    /\ clock = StartTime
    /\ pc = "idle"
    /\ pending = <<>>
    /\ now = StartTime
    /\ idx = 1
    /\ sends = [i \in Ids |-> 0]
    /\ outcome = NoOutcome
    /\ retry = {}
    /\ unmarked = {}
    /\ embed = "no_embed"
    /\ late = {}
    /\ tickStartSent = {}
    /\ markCalls = [i \in Ids |-> 0]
    /\ restarted = FALSE
    /\ lifecycle = "running"
    /\ faults = 0

\* the reminder the loop is at
r == pending[idx]

\* the coroutine is gone and its locals with it; the history keeps the ids
\* whose send raised in the tick that is over
TickOver ==
    /\ pending' = <<>>
    /\ idx' = 1
    /\ now' = StartTime
    /\ retry' = {i \in Ids : outcome[i] = "sendraise"}
    /\ unmarked' = {i \in Ids : outcome[i] = "markfail"}
    /\ embed' = "no_embed"
    /\ outcome' = NoOutcome
    /\ tickStartSent' = {}

\* ------------------------------------------------------ check_reminders
\* pending = database.get_pending_reminders(); now = datetime.now(timezone.utc)
\* The scheduler runs at most one instance of the job at a time, and none
\* once scheduler.shutdown() has been called.
TickStart ==
    /\ lifecycle = "running"
    /\ pc = "idle"
    /\ \E p \in get_pending_reminders(rows) :
          pending' = [i \in DOMAIN p |-> rows[p[i]]]
    /\ now' = clock
    /\ idx' = 1
    /\ pc' = "loop"
    /\ tickStartSent' = {i \in DOMAIN rows : rows[i].sent_status = 1}
    /\ UNCHANGED <<rows, sends, outcome, retry, unmarked, embed, markCalls, faults>>
    /\ UNCHANGED envVars
    /\ UNCHANGED late

\* one pass of the loop body up to "await channel.send" or to the next
\* reminder; channel is what bot.get_channel returns (TRUE: a channel)
TickItemCh(channel) ==
    /\ pc = "loop"
    /\ idx <= Len(pending)
    /\ IF ~IsStr(r.remind_time)
       THEN \* remind_time <= now raises TypeError: "Error in check_reminders"
            /\ pc' = "idle"
            /\ TickOver
       ELSE IF ~ParseRemindTime(r.remind_time).ok
       THEN /\ idx' = NextIndexOnSkip(idx, Len(pending))
            /\ outcome' = [outcome EXCEPT ![r.id] = "corrupt"]
            /\ UNCHANGED <<pc, pending, now, retry, unmarked, embed, tickStartSent>>
       ELSE IF ~IsDue(ParseRemindTime(r.remind_time).t, now)
       THEN /\ idx' = NextIndexOnSkip(idx, Len(pending))
            /\ outcome' = [outcome EXCEPT ![r.id] = "notdue"]
            /\ UNCHANGED <<pc, pending, now, retry, unmarked, embed, tickStartSent>>
       ELSE IF DISCORD_CHANNEL_ID /\ channel
       THEN IF TimeDueField(r.event_time) = "raise"
            THEN \* an exception of the embed code: "Failed to send reminder"
                 /\ idx' = NextIndexOnError(idx, Len(pending))
                 /\ outcome' = [outcome EXCEPT ![r.id] = "embedraise"]
                 /\ UNCHANGED <<pc, pending, now, retry, unmarked, embed, tickStartSent>>
            ELSE /\ pc' = "sending"
                 /\ embed' = TimeDueField(r.event_time)
                 /\ outcome' = [outcome EXCEPT ![r.id] = "sending"]
                 /\ UNCHANGED <<idx, pending, now, retry, unmarked, tickStartSent>>
       ELSE \* no channel id, or "Channel ... not found": line 123 comes next
            /\ pc' = "marking"
            /\ outcome' = [outcome EXCEPT ![r.id] =
                              IF DISCORD_CHANNEL_ID THEN "nochannel" ELSE "noid"]
            /\ UNCHANGED <<idx, pending, now, retry, unmarked, embed, tickStartSent>>
    /\ UNCHANGED <<rows, sends, markCalls, faults>>
    /\ UNCHANGED envVars
    /\ UNCHANGED late

TickItem == \E channel \in BOOLEAN : TickItemCh(channel)

\* await channel.send(...) returns
SendOk ==
    /\ pc = "sending"
    /\ sends' = [sends EXCEPT ![r.id] = @ + 1]
    /\ outcome' = [outcome EXCEPT ![r.id] = "sent"]
    /\ pc' = "marking"
    /\ UNCHANGED <<rows, pending, now, idx, retry, unmarked, embed, tickStartSent, markCalls, faults>>
    /\ UNCHANGED envVars
    /\ UNCHANGED late

\* await channel.send(...) raises
SendRaise ==
    /\ pc = "sending"
    /\ faults < MaxFaults
    /\ faults' = faults + 1
    /\ rows' = HandleItemError(rows, r.id)
    /\ outcome' = [outcome EXCEPT ![r.id] = "sendraise"]
    /\ idx' = NextIndexOnError(idx, Len(pending))
    /\ pc' = "loop"
    /\ UNCHANGED <<pending, now, sends, retry, unmarked, embed, tickStartSent, markCalls>>
    /\ UNCHANGED envVars
    /\ UNCHANGED late

\* database.mark_reminder_sent(r['id']) commits
MarkOk ==
    /\ pc = "marking"
    /\ rows' = mark_reminder_sent(rows, r.id)
    /\ markCalls' = [markCalls EXCEPT ![r.id] = @ + 1]
    /\ outcome' = [outcome EXCEPT ![r.id] = IF @ = "sent" THEN "delivered" ELSE @]
    /\ idx' = idx + 1
    /\ pc' = "loop"
    /\ UNCHANGED <<pending, now, sends, retry, unmarked, embed, tickStartSent, faults>>
    /\ UNCHANGED envVars
    /\ UNCHANGED late

\* database.mark_reminder_sent(r['id']) raises
MarkFail ==
    /\ pc = "marking"
    /\ faults < MaxFaults
    /\ faults' = faults + 1
    /\ rows' = HandleItemError(rows, r.id)
    /\ outcome' = [outcome EXCEPT ![r.id] = IF @ = "sent" THEN "markfail" ELSE @]
    /\ idx' = NextIndexOnError(idx, Len(pending))
    /\ pc' = "loop"
    /\ UNCHANGED <<pending, now, sends, retry, unmarked, embed, tickStartSent, markCalls>>
    /\ UNCHANGED envVars
    /\ UNCHANGED late

\* the for loop is exhausted
TickEnd ==
    /\ pc = "loop"
    /\ idx > Len(pending)
    /\ pc' = "idle"
    /\ TickOver
    /\ UNCHANGED <<rows, sends, markCalls, faults>>
    /\ UNCHANGED envVars
    /\ UNCHANGED late

\* ------------------------------------------------------ other operations
\* POST /reminders; the handler has no await, so it runs while the tick is
\* idle or suspended in channel.send.  The server handles requests between
\* the two halves of lifespan only.
CreateReminder ==
    /\ lifecycle = "running"
    /\ pc \in {"idle", "sending"}
    /\ \E event_time \in EventTimeInputs, client_offset \in ClientOffsets,
          offset_minutes \in LeadOffsets :
          /\ StrptimeLocal(event_time).ok => Len(rows) < MaxRows
          /\ rows' = create_reminder(rows, "m", event_time, offset_minutes, "u",
                                     client_offset)
    /\ late' = IF pc = "sending" /\ Len(rows') > Len(rows)
               THEN late \cup {Len(rows')}
               ELSE late
    /\ UNCHANGED <<sends, markCalls, faults>>
    /\ UNCHANGED envVars
    /\ UNCHANGED tickVars

\* time passes.  The clock is read at line 43 only, by a running process at
\* the start of a tick: time that passes during a tick shows at the next one.
Advance ==
    /\ lifecycle # "stopped"
    /\ pc = "idle"
    /\ clock < EndTime
    /\ clock' = clock + 30
    /\ UNCHANGED <<rows, DISCORD_CHANNEL_ID, restarted, lifecycle, sends, markCalls,
                   faults>>
    /\ UNCHANGED tickVars
    /\ UNCHANGED late

\* the process dies and is started again: the table is what was committed,
\* the environment is read again, a running tick is gone
Restart ==
    /\ faults < MaxFaults
    /\ faults' = faults + 1
    /\ DISCORD_CHANNEL_ID' \in BOOLEAN
    /\ pc' = "idle"
    /\ IF pc = "idle" THEN UNCHANGED <<pending, now, idx, outcome, retry, unmarked, embed, tickStartSent>>
       ELSE TickOver
    /\ restarted' = TRUE
    /\ lifecycle' = "running"
    /\ UNCHANGED <<rows, clock, sends, markCalls>>
    /\ UNCHANGED late

\* lifespan after the yield: scheduler.shutdown().  It runs on the event loop,
\* so a tick is idle or suspended in channel.send.  The scheduler starts no
\* further job; a job in flight is either cancelled at its await
\* (CancelledError passes both "except Exception" handlers) or left alone,
\* as the scheduler's executor decides.  Nothing awaits the job.
ShutdownBegin ==
    /\ lifecycle = "running"
    /\ pc \in {"idle", "sending"}
    /\ lifecycle' = "stopping"
    /\ \E cancelled \in BOOLEAN :
          IF cancelled /\ pc = "sending"
          THEN pc' = "idle" /\ TickOver
          ELSE UNCHANGED tickVars
    /\ UNCHANGED <<rows, DISCORD_CHANNEL_ID, clock, restarted, sends, markCalls, faults>>
    /\ UNCHANGED late

\* await bot.close() and the bot task are over: "Discord Bot shut down.", the
\* lifespan returns and the event loop ends, with whatever still runs on it
ShutdownEnd ==
    /\ lifecycle = "stopping"
    /\ pc \in {"idle", "sending"}
    /\ lifecycle' = "stopped"
    /\ IF pc = "sending"
       THEN pc' = "idle" /\ TickOver
       ELSE UNCHANGED tickVars
    /\ UNCHANGED <<rows, DISCORD_CHANNEL_ID, clock, restarted, sends, markCalls, faults>>
    /\ UNCHANGED late

Next ==
    \/ TickStart
    \/ TickItem
    \/ SendOk
    \/ SendRaise
    \/ MarkOk
    \/ MarkFail
    \/ TickEnd
    \/ CreateReminder
    \/ Advance
    \/ Restart
    \/ ShutdownBegin
    \/ ShutdownEnd

Spec == Init /\ [][Next]_vars


\* ---------------------------------------- the store driven on its own
\* mark_reminder_sent called directly, for any id, any number of times
StoreMark ==
    /\ pc = "idle"
    /\ \E reminder_id \in Ids :
          /\ markCalls[reminder_id] < MaxMarkCalls
          /\ rows' = mark_reminder_sent(rows, reminder_id)
          /\ markCalls' = [markCalls EXCEPT ![reminder_id] = @ + 1]
    /\ UNCHANGED <<sends, faults>>
    /\ UNCHANGED envVars
    /\ UNCHANGED tickVars
    /\ UNCHANGED late

NextStore ==
    \/ CreateReminder
    \/ StoreMark

SpecStore == Init /\ [][NextStore]_vars

\* ------------------------------------ create_reminder driven on its own
\* form fields of every kind: clock values that roll over midnight either
\* way, a string of another pattern, an offset beyond a day, a negative lead
WideEventTimes == { Txt("local", 1, 14, 30, 0), Txt("local", 1, 23, 50, 0),
                    Txt("local", 2, 0, 10, 0), Txt("bad", 0, 0, 0, 0) }
WideClientOffsets == {300, -60, 1500}
WideLeadOffsets == {0, 30, -30}

Submit ==
    /\ pc = "idle"
    /\ \E event_time \in WideEventTimes, client_offset \in WideClientOffsets,
          offset_minutes \in WideLeadOffsets :
          /\ StrptimeLocal(event_time).ok => Len(rows) < MaxRows
          /\ rows' = create_reminder(rows, "m", event_time, offset_minutes, "u",
                                     client_offset)
    /\ UNCHANGED <<sends, markCalls, faults>>
    /\ UNCHANGED envVars
    /\ UNCHANGED tickVars
    /\ UNCHANGED late

InitSubmit == Init /\ rows = <<>> /\ DISCORD_CHANNEL_ID

NextSubmit == Submit

SpecSubmit == InitSubmit /\ [][NextSubmit]_vars

\* the tick fires every 30 seconds and its steps run to completion; the
\* channel resolves and channel.send returns again and again
LiveSpec ==
    /\ Spec
    /\ WF_vars(TickStart)
    /\ WF_vars(TickItem)
    /\ SF_vars(TickItemCh(TRUE))
    /\ SF_vars(SendOk)
    /\ WF_vars(MarkOk \/ MarkFail)
    /\ WF_vars(TickEnd)

\* the same scheduling, with nothing said about channel.send: the await at
\* the send returns when Discord answers, and the code sets no time limit
StuckSpec ==
    /\ Spec
    /\ WF_vars(TickStart)
    /\ WF_vars(TickItem)
    /\ SF_vars(TickItemCh(TRUE))
    /\ WF_vars(MarkOk \/ MarkFail)
    /\ WF_vars(TickEnd)

\* ------------------------------------------------------------ properties
Status(i) == rows[i].sent_status

\* the instant a stored remind_time denotes: the printed wall clock minus the
\* printed offset, a text without offset being UTC
Accepted(txt) ==
    /\ txt.enc \in {"frac_tz", "sec_tz", "naive", "naive_frac", "iso_z"}
    /\ FieldsValid(txt)
DueInstant(txt) == Ordinal(txt.d, txt.h, txt.m) - txt.off

\* the tick has gone through its whole list and is about to return
TickAtEnd == pc = "loop" /\ idx > Len(pending)

\* C1: every stored reminder is sent exactly once: never more than once, and
\* at least once when its row says Sent
C1_ExactlyOnce ==
    \A i \in DOMAIN rows :
        /\ sends[i] <= 1
        /\ Status(i) = 1 => sends[i] >= 1

\* C2: a Pending reminder whose remind_time parses and is due is eventually
\* sent at least once (as long as the environment names a channel and the
\* scheduler has not been shut down)
C2_DueEventuallySent ==
    \A i \in Ids :
        (/\ i \in DOMAIN rows
         /\ Status(i) = 0
         /\ Accepted(rows[i].remind_time)
         /\ DueInstant(rows[i].remind_time) <= clock)
        ~> (sends[i] >= 1 \/ ~DISCORD_CHANNEL_ID \/ lifecycle # "running")

\* C3: a tick that starts after mark_reminder_sent(id) has committed sends
\* nothing for id, before or after a restart
C3_NoSendAfterCommit ==
    [][\A i \in Ids : sends'[i] > sends[i] => i \notin tickStartSent]_vars

C3_Witness ==
    /\ restarted
    /\ TickAtEnd
    /\ tickStartSent # {}
    /\ \E i \in DOMAIN rows : outcome[i] = "delivered"

\* C4: a row says Sent only if a send of its message has succeeded
C4_SentImpliesSend ==
    \A i \in DOMAIN rows : Status(i) = 1 => sends[i] >= 1

\* C5: a reminder for which bot.get_channel found no channel is still Pending
\* when the tick returns
C5_NoChannelStaysPending ==
    TickAtEnd => \A i \in DOMAIN rows : outcome[i] = "nochannel" => Status(i) = 0


C1_Duplicate == \E i \in DOMAIN rows : sends[i] >= 2

\* what a tick records for a reminder it took into its delivery block
Attempted == {"sendraise", "markfail", "delivered", "nochannel", "noid"}

\* a step by which check_reminders returns (a restart counts as a fault, a
\* shutdown changes the lifecycle)
TickReturns ==
    pc # "idle" /\ pc' = "idle" /\ faults' = faults /\ lifecycle' = lifecycle

\* C6: after channel.send raised for a reminder, the tick does not mark it: its
\* row stays as fetched (Pending, every field unchanged); the next tick that
\* runs to its end takes the reminder into its delivery block again
C6_SendRaiseStaysPending ==
    /\ pc # "idle" =>
         \A i \in DOMAIN pending :
             outcome[pending[i].id] = "sendraise" =>
                 /\ rows[pending[i].id] = pending[i]
                 /\ markCalls[pending[i].id] = 0
    /\ TickAtEnd => \A i \in retry : outcome[i] \in Attempted

C6_Witness ==
    /\ TickAtEnd
    /\ \E i \in retry : outcome[i] = "delivered" /\ sends[i] = 1 /\ Status(i) = 1

\* C7: a reminder is sent or marked Sent only in a tick whose now is at or
\* after the instant its stored remind_time denotes, whatever the encoding
C7_NotBeforeDue ==
    [][\A i \in DOMAIN rows :
          (sends'[i] > sends[i] \/ (Status(i) = 0 /\ rows'[i].sent_status = 1)) =>
              /\ Accepted(rows[i].remind_time)
              /\ DueInstant(rows[i].remind_time) <= now]_vars

C7_Witness ==
    /\ TickAtEnd
    /\ \E i, j \in DOMAIN rows :
          /\ outcome[i] = "notdue"
          /\ rows[i].remind_time.off < 0
          /\ Ordinal(rows[i].remind_time.d, rows[i].remind_time.h,
                     rows[i].remind_time.m) <= now
          /\ Status(i) = 0 /\ sends[i] = 0
          /\ outcome[j] = "delivered"

\* C8: when channel.send or mark_reminder_sent failed for one reminder, the
\* tick returns only after it has taken every other due reminder of its list
\* into its delivery block, and a reminder it delivered is marked Sent
C8_FailureIsolation ==
    [][(TickReturns /\ \E a \in Ids : outcome[a] \in {"sendraise", "markfail"}) =>
          \A i \in DOMAIN pending :
              (/\ Accepted(pending[i].remind_time)
               /\ DueInstant(pending[i].remind_time) <= now) =>
                  /\ outcome[pending[i].id] \in Attempted
                  /\ outcome[pending[i].id] = "delivered" => Status(pending[i].id) = 1]_vars

C8_Witness ==
    /\ TickAtEnd
    /\ \E i, j \in DOMAIN pending :
          /\ i < j
          /\ outcome[pending[i].id] \in {"sendraise", "markfail"}
          /\ outcome[pending[j].id] = "delivered"
          /\ Status(pending[j].id) = 1

\* C9: when a tick returns, every reminder of its list whose remind_time has
\* none of the accepted encodings was skipped (row untouched, nothing sent),
\* and every other due reminder of the list was taken into the delivery block
C9_CorruptIsolation ==
    [][TickReturns =>
          \A i \in DOMAIN pending :
              IF ~Accepted(pending[i].remind_time)
              THEN /\ outcome[pending[i].id] = "corrupt"
                   /\ rows[pending[i].id] = pending[i]
              ELSE DueInstant(pending[i].remind_time) <= now =>
                       outcome[pending[i].id] \in Attempted]_vars

\* C10: mark_reminder_sent on a reminder that is already Sent leaves the table
\* as it is
C10_MarkIdempotent ==
    [][\A i \in DOMAIN rows :
          (Status(i) = 1 /\ markCalls'[i] > markCalls[i]) => rows' = rows]_vars

C10_Witness ==
    /\ Len(rows) >= 2
    /\ \E i, j \in DOMAIN rows :
          markCalls[i] >= 2 /\ Status(i) = 1 /\ Status(j) = 0

\* C11: sent_status is 0 or 1 in every row, it is 0 in a row that has just
\* been inserted, and no step takes it from 1 back to 0
C11_StatusMonotonic ==
    [][\A i \in DOMAIN rows' :
          /\ rows'[i].sent_status \in {0, 1}
          /\ i \notin DOMAIN rows => rows'[i].sent_status = 0
          /\ (i \in DOMAIN rows /\ rows[i].sent_status = 1) => rows'[i].sent_status = 1]_vars

C11_Witness ==
    /\ pc = "idle"
    /\ Len(rows) >= 2
    /\ \A i \in DOMAIN rows : Status(i) = 1 /\ markCalls[i] = 1

\* check_reminders returns by itself: the loop is exhausted or the comparison
\* raised into the outer handler
TickFinishes == TickAtEnd \/ (pc = "loop" /\ idx <= Len(pending) /\ ~IsStr(r.remind_time))

\* C12: once shutdown has been issued no tick starts, and a tick that is in
\* flight ends only by finishing, before the system reports stopped
C12_ShutdownDrains ==
    [][lifecycle' # "running" =>
          /\ pc = "idle" => pc' = "idle"
          /\ (pc # "idle" /\ pc' = "idle") => TickFinishes]_vars

\* a submission the specification accepts: the pattern YYYY-MM-DDTHH:MM, an
\* offset of at most a day either way, a lead that is not negative
ValidSubmission(event_time, client_offset, offset_minutes) ==
    /\ event_time.enc = "local" /\ FieldsValid(event_time)
    /\ -MinutesPerDay <= client_offset /\ client_offset <= MinutesPerDay
    /\ offset_minutes >= 0

\* the step is create_reminder run on these form fields
IsSubmission(event_time, client_offset, offset_minutes) ==
    rows' = create_reminder(rows, "m", event_time, offset_minutes, "u", client_offset)

\* C13: a valid submission stores one new Pending row whose event_time is the
\* wall clock plus client_offset minutes, printed as UTC, and whose remind_time
\* lies exactly offset_minutes before it
C13_Normalization ==
    [][\A e \in WideEventTimes, c \in WideClientOffsets, o \in WideLeadOffsets :
          (ValidSubmission(e, c, o) /\ IsSubmission(e, c, o)) =>
              /\ Len(rows') = Len(rows) + 1
              /\ LET new == rows'[Len(rows')] IN
                   /\ new.sent_status = 0
                   /\ Accepted(new.event_time) /\ new.event_time.off = 0
                   /\ Accepted(new.remind_time) /\ new.remind_time.off = 0
                   /\ DueInstant(new.event_time) = Ordinal(e.d, e.h, e.m) + c
                   /\ DueInstant(new.event_time) - DueInstant(new.remind_time) = o]_vars

\* 14:30 with offset +300 and lead 30 gives 19:30Z and 19:00Z; 00:10 with
\* offset -60 and lead 30 gives 23:10Z and 22:40Z of the day before
C13_Witness ==
    \E i, j \in DOMAIN rows :
        /\ rows[i].event_time = Txt("sec_tz", 1, 19, 30, 0)
        /\ rows[i].remind_time = Txt("sec_tz", 1, 19, 0, 0)
        /\ rows[j].event_time = Txt("sec_tz", 1, 23, 10, 0)
        /\ rows[j].remind_time = Txt("sec_tz", 1, 22, 40, 0)

\* C14: a submission that is not valid leaves the table as it is
C14_InvalidCreatesNoRecord ==
    [][\A e \in WideEventTimes, c \in WideClientOffsets, o \in WideLeadOffsets :
          (~ValidSubmission(e, c, o) /\ IsSubmission(e, c, o)) => rows' = rows]_vars

\* C15: when mark_reminder_sent fails after a successful send, the row stays
\* Pending and the tick goes on with the next reminder of its list; the tick
\* after it takes the reminder to the delivery block again, and a delivery
\* there is the second one
C15_MarkFailDuplicates ==
    [][/\ \A i \in Ids :
             (outcome[i] = "sent" /\ outcome'[i] = "markfail") =>
                 /\ rows' = rows /\ Status(i) = 0
                 /\ pc' = "loop" /\ idx' = idx + 1 /\ pending' = pending
                 /\ lifecycle' = lifecycle
       /\ TickAtEnd' =>
             \A i \in unmarked' :
                 /\ outcome'[i] \in Attempted
                 /\ outcome'[i] = "delivered" => sends'[i] >= 2]_vars

\* the commit failed on the first of two reminders, the second was delivered
\* in the same tick, and the tick after delivered the first a second time
C15_Witness ==
    /\ TickAtEnd
    /\ \E i, j \in Ids :
          /\ i # j
          /\ i \in unmarked /\ outcome[i] = "delivered" /\ sends[i] = 2 /\ Status(i) = 1
          /\ sends[j] = 1 /\ Status(j) = 1 /\ markCalls[j] = 1

\* the reminder whose delivery block the tick is in, 0 when it is in none
InDelivery == IF pc \in {"sending", "marking"} THEN r.id ELSE 0

\* C17: while the tick waits in channel.send for one reminder, every other
\* Pending reminder that is due comes to its own delivery (or is marked)
\* after a while: the send that does not return is given up
C17_StuckSendBounded ==
    \A b \in Ids :
        (/\ pc = "sending" /\ InDelivery # b
         /\ lifecycle = "running"
         /\ b \in DOMAIN rows
         /\ Status(b) = 0
         /\ Accepted(rows[b].remind_time)
         /\ DueInstant(rows[b].remind_time) <= clock)
        ~> \/ sends[b] >= 1
           \/ (b \in DOMAIN rows /\ Status(b) = 1)
           \/ InDelivery = b
           \/ lifecycle # "running"

\* C18: the list a tick fetches holds every Pending row once and no Sent row,
\* and its rows come in ascending order of the instants their remind_time
\* texts denote, whatever their encodings
C18_PendingExactAndOrdered ==
    [][(pc = "idle" /\ pc' = "loop") =>
          /\ {pending'[k].id : k \in DOMAIN pending'} = {i \in DOMAIN rows : Status(i) = 0}
          /\ \A k \in DOMAIN pending' : pending'[k] = rows[pending'[k].id]
          /\ \A j, k \in DOMAIN pending' :
                /\ j # k => pending'[j].id # pending'[k].id
                /\ (/\ j < k
                    /\ Accepted(pending'[j].remind_time)
                    /\ Accepted(pending'[k].remind_time)) =>
                      DueInstant(pending'[j].remind_time) <= DueInstant(pending'[k].remind_time)]_vars

\* C19: delivery does not depend on event_time.  The embed of a reminder
\* whose event_time is absent or of another type has no time field, that of
\* one whose event_time does not parse carries the raw text, and at the end
\* of a tick every fetched reminder that is due has been through the
\* delivery block: sent and marked like one with a well-formed event_time
C19_EventTimeIndependent ==
    [][/\ (pc = "loop" /\ pc' = "sending") =>
             /\ r.event_time.enc \in {"null", "int"} => embed' = "no_field"
             /\ r.event_time.enc = "garbage" => embed' = "raw"
       /\ TickAtEnd' =>
             \A k \in DOMAIN pending' :
                 (/\ Accepted(pending'[k].remind_time)
                  /\ DueInstant(pending'[k].remind_time) <= now') =>
                     /\ outcome'[pending'[k].id] \in Attempted
                     /\ (outcome'[pending'[k].id] = "delivered") =>
                           /\ sends'[pending'[k].id] >= 1
                           /\ rows'[pending'[k].id].sent_status = 1]_vars

\* a reminder with an unparsable event_time was sent with the raw text and
\* marked in the tick that found it due
C19_Witness ==
    /\ TickAtEnd
    /\ embed = "raw"
    /\ \E k \in DOMAIN pending :
          /\ pending[k].event_time.enc = "garbage"
          /\ pending[k].remind_time.enc = "naive"
          /\ outcome[pending[k].id] = "delivered"
          /\ sends[pending[k].id] = 1
          /\ Status(pending[k].id) = 1

\* the ids of the list the tick works on
SnapshotIds == {pending[k].id : k \in DOMAIN pending}

\* the rows inserted since the tick in flight took its list
CreatedInFlight == DOMAIN rows \ (SnapshotIds \cup tickStartSent)

\* C20: a reminder created while a tick is in flight is not in that tick's
\* list and the tick leaves its row alone (Pending, never sent, never
\* marked); the tick after fetches it, and a tick that finds it due takes it
\* through the delivery block
C20_CreatedInFlightKept ==
    [][/\ pc' # "idle" =>
             \A i \in CreatedInFlight' :
                 /\ rows'[i].sent_status = 0
                 /\ sends'[i] = 0 /\ markCalls'[i] = 0
                 /\ i \in DOMAIN rows => rows'[i] = rows[i]
       /\ (pc = "idle" /\ pc' = "loop") =>
             \A i \in late : Status(i) = 0 => i \in SnapshotIds'
       /\ TickAtEnd' =>
             \A i \in late' \cap SnapshotIds' :
                 DueInstant(rows'[i].remind_time) <= now' =>
                     /\ outcome'[i] \in Attempted
                     /\ outcome'[i] = "delivered" =>
                           sends'[i] >= 1 /\ rows'[i].sent_status = 1]_vars

\* a reminder was created while the tick waited in channel.send for
\* another one; that tick ended, and a later tick delivered and marked it
C20_Witness ==
    /\ TickAtEnd
    /\ \E i \in late, j \in Ids :
          /\ i # j
          /\ outcome[i] = "delivered" /\ sends[i] = 1 /\ Status(i) = 1
          /\ sends[j] = 1 /\ Status(j) = 1

====
